---- MODULE Spec2Model ----
(***************************************************************************)
(* A model of ipv4_to_ipv6_lookup.py: process_ipv4_list loads the          *)
(* candidates, fans one resolution task per candidate out onto a           *)
(* ThreadPoolExecutor, fans the futures in with as_completed, and writes   *)
(* the resolved addresses to the output file.                              *)
(*                                                                         *)
(* Strings are sequences of one-character strings, so that strip(),        *)
(* startswith() and the "\n" that f.write appends are computed.            *)
(***************************************************************************)
EXTENDS Integers, Sequences, FiniteSets

\* ------------------------------------------------------------------ bounds

\* The greatest number of lines of an input file.
MaxLines == 3

\* The greatest max_workers a run is given.
MaxWorkers == 2

\* ------------------------------------------------------ program constants

\* The progress cadence: "if proc_cnt % 10 == 0".
ProgressEvery == 10

\* ---------------------------------------------------------------- strings

NL == "\n"

\* Python's None, as returned by resolve_ipv4_to_ipv6; an address is a
\* non-empty string, so the empty sequence stands for None and both are
\* falsy in "if ipv6:".
None == << >>

Truthy(v) == v # None

IsSpace(c) == c \in {" ", NL, "\t"}

RECURSIVE LStrip(_)
LStrip(s) ==
    IF s = << >> THEN s
    ELSE IF IsSpace(Head(s)) THEN LStrip(Tail(s)) ELSE s

RECURSIVE RStrip(_)
RStrip(s) ==
    IF s = << >> THEN s
    ELSE IF IsSpace(s[Len(s)]) THEN RStrip(SubSeq(s, 1, Len(s) - 1)) ELSE s

\* Strip written as rstrip(): leading whitespace stays.
Strip_RightOnly(s) == RStrip(s)

\* str.strip()
Strip(s) == RStrip(LStrip(s))

\* str.startswith('#')
StartsWithHash(s) == Len(s) >= 1 /\ s[1] = "#"

\* "if line and not line.startswith('#')", on the stripped line
KeepLine(s) == s # << >> /\ ~StartsWithHash(s)

\* The loop of lines 62-66: the stripped lines that are kept, in order.
RECURSIVE LoadCandidates(_)
LoadCandidates(lines) ==
    IF lines = << >> THEN << >>
    ELSE LET line == Strip(Head(lines))
         IN  IF KeepLine(line)
             THEN <<line>> \o LoadCandidates(Tail(lines))
             ELSE LoadCandidates(Tail(lines))

\* ------------------------------------------------------------------- DNS

\* What the resolver answers for one candidate: the reverse lookup fails
\* with a caught error ("herror": socket.herror, socket.gaierror, OSError),
\* fails with an exception the except clause does not name ("other", such
\* as the UnicodeError of a label longer than 63 characters), never returns
\* ("hang": no timeout is set), or gives a hostname ("ok"); then the same
\* for the forward lookup ("gaierror", "other", "hang" or "none"), whose
\* records' addresses are fwd.
Answer(rev, fwd_err, fwd) == [rev |-> rev, fwd_err |-> fwd_err, fwd |-> fwd]

\* Lines 32-36: the addresses de-duplicated in first-seen order.
RECURSIVE Dedup(_, _)
Dedup(addr_info, ipv6_addresses) ==
    IF addr_info = << >> THEN ipv6_addresses
    ELSE LET ipv6_addr == Head(addr_info)
             seen == \E k \in 1..Len(ipv6_addresses) : ipv6_addresses[k] = ipv6_addr
         IN  Dedup(Tail(addr_info),
                   IF seen THEN ipv6_addresses
                   ELSE Append(ipv6_addresses, ipv6_addr))

\* Whether resolve_ipv4_to_ipv6 raises to its caller: an exception of the
\* lookup calls that "except (socket.herror, socket.gaierror, OSError)"
\* does not catch.
ResolveRaises(ans) ==
    \/ ans.rev = "other"
    \/ ans.rev = "ok" /\ ans.fwd_err = "other"

\* Lines 32-40 and 46: the first of the de-duplicated addresses, or None.
FirstAddress(addr_info) ==
    LET ipv6_addresses == Dedup(addr_info, << >>)
    IN  IF ipv6_addresses # << >> THEN ipv6_addresses[1] ELSE None

\* resolve_ipv4_to_ipv6's return value, when it returns.
ResolveValue(ans) ==
    IF ans.rev # "ok" THEN None
    ELSE IF ans.fwd_err # "none" THEN None
    ELSE FirstAddress(ans.fwd)

\* ----------------------------------------------------------- output file

\* ipv6 + "\n"
OutLine(ipv6) == Append(ipv6, NL)

\* The text that lines 123-124 write for the addresses rs[1..n].
RECURSIVE Written(_, _)
Written(rs, n) ==
    IF n = 0 THEN << >> ELSE Written(rs, n - 1) \o OutLine(rs[n])

\* A text file's lines: the maximal runs of characters ended by "\n" (a
\* last run that no "\n" ends is a line too).
RECURSIVE SplitLines(_, _)
SplitLines(text, cur) ==
    IF text = << >> THEN (IF cur = << >> THEN << >> ELSE <<cur>>)
    ELSE IF Head(text) = NL THEN <<cur>> \o SplitLines(Tail(text), << >>)
    ELSE SplitLines(Tail(text), Append(cur, Head(text)))

FileLines(text) == SplitLines(text, << >>)

\* ----------------------------------------------------------------- state

VARIABLES
    input_file,    \* the input file: [kind, lines]
    out_prior,     \* the output file as the run found it: [exists, text]
    out_exists,    \* whether the output file exists
    out_text,      \* the output file's content
    max_workers,   \* the max_workers argument
    dns,           \* the DNS environment: candidate -> Answer
    pc,            \* the position of process_ipv4_list (the main thread)
    exc,           \* the exception that left process_ipv4_list, or "none"
    caught,        \* what the except clause entered last caught, or "none"
    console,       \* what was printed, in order
    ipv4_addr,     \* the candidates
    futures,       \* the argument of each work item submitted, in order
    lock,          \* threading.Lock: 0 when free, else the holding task
    proc_cnt,
    found_cnt,
    ipv6_results,
    tpc,           \* each task's position (one task per future)
    ipv6,          \* each task's local ipv6
    tmp,           \* each task's value loaded by the "+=" in progress
    consumed,      \* the futures as_completed has yielded so far
    wi             \* how many results the write loop has written

vars == <<input_file, out_prior, out_exists, out_text, max_workers, dns, pc,
          exc, caught, console, ipv4_addr, futures, lock, proc_cnt, found_cnt,
          ipv6_results, tpc, ipv6, tmp, consumed, wi>>

env == <<input_file, out_prior, max_workers, dns>>
shared == <<lock, proc_cnt, found_cnt, ipv6_results>>
taskvars == <<futures, tpc, ipv6, tmp>>
failure == <<exc, caught>>
mainvars == <<pc, exc, caught, console, ipv4_addr, consumed, wi>>
outfile == <<out_exists, out_text>>

Tasks == DOMAIN tpc

RunningPcs == {"resolve", "l29", "lock", "l92_load", "l92_store", "l94_load",
               "l94_store", "l95", "l98", "release"}

FinishedPcs == {"done", "failed"}

Running == {i \in Tasks : tpc[i] \in RunningPcs}

Queued == {i \in Tasks : tpc[i] = "queued"}

Msg(m, p, f) == [msg |-> m, proc |-> p, found |-> f]

Say(m) == console' = Append(console, Msg(m, 0, 0))

\* ------------------------------------------------------------ the inputs

\* The lines input files are made of: one that strip() must trim, a plain
\* one, a comment and a blank line.
InputLines == { <<" ", "a", NL>>, <<"b">>, <<"#", "a">>, <<NL>> }

RECURSIVE SeqsUpTo(_, _)
SeqsUpTo(S, n) ==
    IF n = 0 THEN { << >> }
    ELSE LET shorter == SeqsUpTo(S, n - 1)
         IN  shorter \cup { Append(s, x) : s \in shorter, x \in S }

InputFiles ==
    { [kind |-> "ok", lines |-> ls] : ls \in SeqsUpTo(InputLines, MaxLines) }
    \cup { [kind |-> k, lines |-> << >>] : k \in {"missing", "ioerror"} }

Candidates == { <<"a">>, <<"b">> }

X == <<"x">>
Y == <<"y">>

Answers == { Answer("herror", "none", << >>),
             Answer("ok", "none", <<X, Y, X>>),
             Answer("ok", "none", <<Y>>),
             Answer("ok", "other", << >>) }

\* The output file before the run: absent, or holding an earlier run's line.
PriorOutputs == { [exists |-> FALSE, text |-> << >>],
                  [exists |-> TRUE, text |-> <<"o", NL>>] }

\* A run's start: the input file, the DNS mapping, max_workers and the
\* output file as found are drawn from the sets given.
InitWith(files, maps, workers, priors) ==
    /\ input_file \in files
    /\ out_prior \in priors
    /\ out_exists = out_prior.exists
    /\ out_text = out_prior.text
    /\ max_workers \in workers
    /\ dns \in maps
    /\ pc = "l60"
    /\ exc = "none"
    /\ caught = "none"
    /\ console = << >>
    /\ ipv4_addr = << >>
    /\ futures = << >>
    /\ lock = 0
    /\ proc_cnt = 0
    /\ found_cnt = 0
    /\ ipv6_results = << >>
    /\ tpc = << >>
    /\ ipv6 = << >>
    /\ tmp = << >>
    /\ consumed = {}
    /\ wi = 0

InitOver(files, answers, workers, priors) ==
    InitWith(files, [Candidates -> answers], workers, priors)

Init == InitOver(InputFiles, Answers, 1..MaxWorkers, PriorOutputs)

\* ------------------------------------------------------- the main thread

\* An except clause catches e and its handler prints and returns.
Report(e, m) ==
    /\ caught' = e
    /\ Say(m)
    /\ pc' = "returned"
    /\ UNCHANGED exc

\* An except clause catches e and its handler evaluates "<str> + e", which
\* raises TypeError (a str and an exception do not concatenate): nothing is
\* printed and TypeError leaves process_ipv4_list.
ReportByConcat(e) ==
    /\ caught' = e
    /\ exc' = "TypeError"
    /\ pc' = "raised"
    /\ UNCHANGED console

\* InputNotFound with line 68 written like line 71: "..." + e.
InputNotFound_Concat == ReportByConcat("FileNotFoundError")

\* Lines 67-69: except FileNotFoundError prints the name and returns.
InputNotFound == Report("FileNotFoundError", "Error: Input file not found")

\* Lines 70-72: except Exception as e: print("..." + e).
InputReadError == ReportByConcat("InputReadError")

\* Lines 60-72: read the input file.
ReadInput ==
    /\ pc = "l60"
    /\ CASE input_file.kind = "missing" ->
              InputNotFound /\ UNCHANGED ipv4_addr
         [] input_file.kind = "ioerror" ->
              InputReadError /\ UNCHANGED ipv4_addr
         [] OTHER ->
              /\ ipv4_addr' = LoadCandidates(input_file.lines)
              /\ pc' = "l74"
              /\ UNCHANGED <<failure, console>>
    /\ UNCHANGED <<env, outfile, shared, taskvars, consumed, wi>>

\* CheckEmpty without the return of line 76: the run goes on with no
\* candidates (the list of futures is empty).
CheckEmpty_NoReturn ==
    /\ pc = "l74"
    /\ Say(IF ipv4_addr = << >> THEN "No IPv4 addresses found in input file"
           ELSE "Processing")
    /\ lock' = 0
    /\ proc_cnt' = 0
    /\ found_cnt' = 0
    /\ ipv6_results' = << >>
    /\ pc' = IF ipv4_addr = << >> THEN "l112" ELSE "l107"
    /\ UNCHANGED <<env, outfile, failure, ipv4_addr, taskvars, consumed, wi>>

\* Lines 74-84: return on no candidates; else create the lock, the counters
\* and the result list.
CheckEmpty ==
    /\ pc = "l74"
    /\ IF ipv4_addr = << >>
       THEN /\ Say("No IPv4 addresses found in input file")
            /\ pc' = "returned"
            /\ UNCHANGED shared
       ELSE /\ Say("Processing")
            /\ lock' = 0
            /\ proc_cnt' = 0
            /\ found_cnt' = 0
            /\ ipv6_results' = << >>
            /\ pc' = "l107"
    /\ UNCHANGED <<env, outfile, failure, ipv4_addr, taskvars, consumed, wi>>

\* Lines 107-109: executor.submit(process_single_ip, ipv4) for the next
\* ipv4 of ipv4_addr; after the last one, the as_completed loop.
Submit ==
    /\ pc = "l107"
    /\ LET ipv4 == ipv4_addr[Len(futures) + 1]
       IN  /\ futures' = Append(futures, ipv4)
           /\ tpc' = Append(tpc, "queued")
           /\ ipv6' = Append(ipv6, None)
           /\ tmp' = Append(tmp, 0)
    /\ pc' = IF Len(futures') = Len(ipv4_addr) THEN "l112" ELSE "l107"
    /\ UNCHANGED <<env, outfile, failure, console, ipv4_addr, shared, consumed,
                   wi>>

\* ------------------------------------------------------ the worker tasks

\* WorkerFree of a pool that starts a thread per work item.
WorkerFree_Unbounded == TRUE

\* ThreadPoolExecutor(max_workers): a work item runs on one of at most
\* max_workers threads, each of which runs one item at a time.
WorkerFree == Cardinality(Running) < max_workers

\* LockFree without the lock: the block of lines 92-101 is entered at once.
LockFree_NoLock == TRUE

\* "with lock:" enters only while no other task holds the lock.
LockFree == lock = 0

\* TaskStart of a pool whose workers take any queued work item, not the
\* oldest.
TaskStart_AnyQueued(i) ==
    /\ tpc[i] = "queued"
    /\ WorkerFree
    /\ tpc' = [tpc EXCEPT ![i] = "resolve"]
    /\ UNCHANGED <<env, outfile, mainvars, shared, futures, ipv6, tmp>>

\* A worker thread takes the oldest queued work item (the work queue is
\* first-in first-out) and calls process_single_ip, which calls
\* resolve_ipv4_to_ipv6 (line 89).
TaskStart(i) ==
    /\ tpc[i] = "queued"
    /\ \A j \in Queued : i <= j
    /\ WorkerFree
    /\ tpc' = [tpc EXCEPT ![i] = "resolve"]
    /\ UNCHANGED <<env, outfile, mainvars, shared, futures, ipv6, tmp>>

\* Line 26, in the call of line 89: gethostbyaddr returns a hostname; or
\* raises an error that line 42 catches and resolve returns None; or raises
\* another exception, which leaves resolve and process_single_ip, and the
\* future holds it.  A lookup that hangs takes no step.
TaskReverse(i) ==
    /\ tpc[i] = "resolve"
    /\ LET ans == dns[futures[i]]
       IN  /\ ans.rev # "hang"
           /\ CASE ans.rev = "ok" ->
                     /\ tpc' = [tpc EXCEPT ![i] = "l29"]
                     /\ UNCHANGED ipv6
                [] ans.rev = "herror" ->
                     /\ tpc' = [tpc EXCEPT ![i] = "lock"]
                     /\ ipv6' = [ipv6 EXCEPT ![i] = None]
                [] OTHER ->
                     /\ tpc' = [tpc EXCEPT ![i] = "failed"]
                     /\ UNCHANGED ipv6
    /\ UNCHANGED <<env, outfile, mainvars, shared, futures, tmp>>

\* Lines 29-46: getaddrinfo returns the records and resolve returns the
\* first address or None; or it raises as the reverse lookup may.
TaskForward(i) ==
    /\ tpc[i] = "l29"
    /\ LET ans == dns[futures[i]]
       IN  /\ ans.fwd_err # "hang"
           /\ CASE ans.fwd_err = "none" ->
                     /\ tpc' = [tpc EXCEPT ![i] = "lock"]
                     /\ ipv6' = [ipv6 EXCEPT ![i] = FirstAddress(ans.fwd)]
                [] ans.fwd_err = "gaierror" ->
                     /\ tpc' = [tpc EXCEPT ![i] = "lock"]
                     /\ ipv6' = [ipv6 EXCEPT ![i] = None]
                [] OTHER ->
                     /\ tpc' = [tpc EXCEPT ![i] = "failed"]
                     /\ UNCHANGED ipv6
    /\ UNCHANGED <<env, outfile, mainvars, shared, futures, tmp>>

\* Line 91: "with lock:" acquires the lock.
TaskAcquire(i) ==
    /\ tpc[i] = "lock"
    /\ LockFree
    /\ lock' = i
    /\ tpc' = [tpc EXCEPT ![i] = "l92_load"]
    /\ UNCHANGED <<env, outfile, mainvars, proc_cnt, found_cnt, ipv6_results,
                   futures, ipv6, tmp>>

\* Line 92, "proc_cnt += 1": the load of the nonlocal.
TaskLoadProc(i) ==
    /\ tpc[i] = "l92_load"
    /\ tmp' = [tmp EXCEPT ![i] = proc_cnt]
    /\ tpc' = [tpc EXCEPT ![i] = "l92_store"]
    /\ UNCHANGED <<env, outfile, mainvars, shared, futures, ipv6>>

\* TaskStoreProc with the lock covering line 92 only: it is released before
\* "if ipv6:".
TaskStoreProc_Unlocks(i) ==
    /\ tpc[i] = "l92_store"
    /\ proc_cnt' = tmp[i] + 1
    /\ lock' = 0
    /\ tpc' = [tpc EXCEPT ![i] = IF Truthy(ipv6[i]) THEN "l94_load" ELSE "l98"]
    /\ UNCHANGED <<env, outfile, mainvars, found_cnt, ipv6_results, futures,
                   ipv6, tmp>>

\* Line 92, "proc_cnt += 1": the store; then "if ipv6:" (line 93).
TaskStoreProc(i) ==
    /\ tpc[i] = "l92_store"
    /\ proc_cnt' = tmp[i] + 1
    /\ tpc' = [tpc EXCEPT ![i] = IF Truthy(ipv6[i]) THEN "l94_load" ELSE "l98"]
    /\ UNCHANGED <<env, outfile, mainvars, lock, found_cnt, ipv6_results,
                   futures, ipv6, tmp>>

\* Line 94, "found_cnt += 1": the load.
TaskLoadFound(i) ==
    /\ tpc[i] = "l94_load"
    /\ tmp' = [tmp EXCEPT ![i] = found_cnt]
    /\ tpc' = [tpc EXCEPT ![i] = "l94_store"]
    /\ UNCHANGED <<env, outfile, mainvars, shared, futures, ipv6>>

\* Line 94, "found_cnt += 1": the store.
TaskStoreFound(i) ==
    /\ tpc[i] = "l94_store"
    /\ found_cnt' = tmp[i] + 1
    /\ tpc' = [tpc EXCEPT ![i] = "l95"]
    /\ UNCHANGED <<env, outfile, mainvars, lock, proc_cnt, ipv6_results,
                   futures, ipv6, tmp>>

\* TaskAppend with ipv6 a variable shared by the tasks (declared nonlocal)
\* instead of a local: the value appended is the one some running task's
\* resolve call stored.
TaskAppend_SharedIpv6(i) ==
    /\ tpc[i] = "l95"
    /\ \E j \in Running :
          /\ tpc[j] \notin {"resolve", "l29"}
          /\ Truthy(ipv6[j])
          /\ ipv6_results' = Append(ipv6_results, ipv6[j])
    /\ tpc' = [tpc EXCEPT ![i] = "l98"]
    /\ UNCHANGED <<env, outfile, mainvars, lock, proc_cnt, found_cnt, futures,
                   ipv6, tmp>>

\* Line 95: ipv6_results.append(ipv6).
TaskAppend(i) ==
    /\ tpc[i] = "l95"
    /\ ipv6_results' = Append(ipv6_results, ipv6[i])
    /\ tpc' = [tpc EXCEPT ![i] = "l98"]
    /\ UNCHANGED <<env, outfile, mainvars, lock, proc_cnt, found_cnt, futures,
                   ipv6, tmp>>

\* Lines 98-101: the progress line, every ProgressEvery-th processed count.
TaskProgress(i) ==
    /\ tpc[i] = "l98"
    /\ IF proc_cnt % ProgressEvery = 0
       THEN console' = Append(console, Msg("Processed", proc_cnt, found_cnt))
       ELSE UNCHANGED console
    /\ tpc' = [tpc EXCEPT ![i] = "release"]
    /\ UNCHANGED <<env, outfile, pc, failure, ipv4_addr, consumed, wi, shared,
                   futures, ipv6, tmp>>

\* The end of "with lock:" releases the lock; process_single_ip returns and
\* the future is done.
TaskRelease(i) ==
    /\ tpc[i] = "release"
    /\ lock' = 0
    /\ tpc' = [tpc EXCEPT ![i] = "done"]
    /\ UNCHANGED <<env, outfile, mainvars, proc_cnt, found_cnt, ipv6_results,
                   futures, ipv6, tmp>>

\* ------------------------------------------------- fan-in and the writer

\* as_completed yields a future once it is done (returned or raised).
Completed(i) == tpc[i] \in FinishedPcs

\* Executor.__exit__ is shutdown(wait=True): it returns when every work
\* item submitted has run.
AllTasksFinished == \A i \in Tasks : tpc[i] \in FinishedPcs

\* Line 116: except Exception as e: print("..." + e).
TaskError == ReportByConcat("TaskError")

\* Lines 112-116: as_completed yields a finished future (here in any order
\* among the finished ones) and future.result() returns, or re-raises the
\* task's exception into the handler of line 116, whose TypeError leaves
\* the loop and unwinds through the "with" of line 106.
AsCompleted(i) ==
    /\ pc = "l112"
    /\ i \notin consumed
    /\ Completed(i)
    /\ consumed' = consumed \cup {i}
    /\ IF tpc[i] = "failed"
       THEN /\ caught' = "TaskError"
            /\ exc' = "TypeError"
            /\ pc' = "unwind"
       ELSE UNCHANGED <<pc, failure>>
    /\ UNCHANGED <<env, outfile, console, ipv4_addr, shared, taskvars, wi>>

\* ExecutorExit of a run that neither loops over as_completed nor waits in
\* shutdown: line 120 is reached as soon as the futures are submitted.
ExecutorExit_NoWait ==
    /\ pc = "l112"
    /\ pc' = "l122"
    /\ UNCHANGED <<env, outfile, failure, console, ipv4_addr, shared, taskvars,
                   consumed, wi>>

\* ExecutorExit of an executor shut down without waiting when an exception
\* unwinds (shutdown(wait=False)): the exception leaves at once.
ExecutorExit_AbortsOnError ==
    /\ \/ pc = "l112" /\ consumed = Tasks /\ AllTasksFinished
       \/ pc = "unwind"
    /\ pc' = IF pc = "unwind" THEN "raised" ELSE "l122"
    /\ UNCHANGED <<env, outfile, failure, console, ipv4_addr, shared, taskvars,
                   consumed, wi>>

\* The end of "with ThreadPoolExecutor(...)": after the loop has consumed
\* every future, or while an exception unwinds, the executor is shut down
\* waiting for its work items.  Then line 118, or the exception leaves
\* process_ipv4_list.
ExecutorExit ==
    /\ \/ pc = "l112" /\ consumed = Tasks
       \/ pc = "unwind"
    /\ AllTasksFinished
    /\ pc' = IF pc = "unwind" THEN "raised" ELSE "l122"
    /\ UNCHANGED <<env, outfile, failure, console, ipv4_addr, shared, taskvars,
                   consumed, wi>>

\* OpenedForWriting with mode 'a': what the file held stays.
OpenedForAppending(text) == text

\* open(output_file, 'w') truncates what the file held.
OpenedForWriting(text) == << >>

\* Lines 125-126: except Exception as e: print("..." + e), and the return
\* of line 127 is not reached.
OutputWriteError == ReportByConcat("OutputWriteError")

\* Line 122: open(output_file, 'w') creates or truncates the file, or fails
\* and leaves it as it was.
OpenOutput ==
    /\ pc = "l122"
    /\ \/ /\ out_exists' = TRUE
          /\ out_text' = OpenedForWriting(out_text)
          /\ wi' = 0
          /\ pc' = "l123"
          /\ UNCHANGED <<failure, console>>
       \/ /\ OutputWriteError
          /\ UNCHANGED <<outfile, wi>>
    /\ UNCHANGED <<env, ipv4_addr, shared, taskvars, consumed>>

\* Lines 123-124: f.write(ipv6 + "\n") for the next result, or an I/O
\* failure partway through.
WriteLine ==
    /\ pc = "l123"
    /\ wi < Len(ipv6_results)
    /\ \/ /\ out_text' = out_text \o OutLine(ipv6_results[wi + 1])
          /\ wi' = wi + 1
          /\ UNCHANGED <<pc, failure, console>>
       \/ /\ OutputWriteError
          /\ UNCHANGED <<out_text, wi>>
    /\ UNCHANGED <<env, out_exists, ipv4_addr, shared, taskvars, consumed>>

\* The end of "with open(...)": the file is closed after the last write,
\* or closing (the flush) fails.
CloseOutput ==
    /\ pc = "l123"
    /\ wi = Len(ipv6_results)
    /\ \/ pc' = "l130" /\ UNCHANGED <<failure, console>>
       \/ OutputWriteError
    /\ UNCHANGED <<env, outfile, ipv4_addr, shared, taskvars, consumed, wi>>

\* Lines 130-134: the statistics; found_cnt / proc_cnt raises
\* ZeroDivisionError when proc_cnt is 0.
PrintStats ==
    /\ pc = "l130"
    /\ IF proc_cnt = 0
       THEN /\ exc' = "ZeroDivisionError"
            /\ pc' = "raised"
            /\ UNCHANGED console
       ELSE /\ console' = Append(console, Msg("Success rate", proc_cnt, found_cnt))
            /\ pc' = "returned"
            /\ UNCHANGED exc
    /\ UNCHANGED <<env, outfile, caught, ipv4_addr, shared, taskvars, consumed,
                   wi>>

\* ------------------------------------------------------ the specification

Next ==
    \/ ReadInput
    \/ CheckEmpty
    \/ Submit
    \/ \E i \in Tasks : TaskStart(i)
    \/ \E i \in Tasks : TaskReverse(i)
    \/ \E i \in Tasks : TaskForward(i)
    \/ \E i \in Tasks : TaskAcquire(i)
    \/ \E i \in Tasks : TaskLoadProc(i)
    \/ \E i \in Tasks : TaskStoreProc(i)
    \/ \E i \in Tasks : TaskLoadFound(i)
    \/ \E i \in Tasks : TaskStoreFound(i)
    \/ \E i \in Tasks : TaskAppend(i)
    \/ \E i \in Tasks : TaskProgress(i)
    \/ \E i \in Tasks : TaskRelease(i)
    \/ \E i \in Tasks : AsCompleted(i)
    \/ ExecutorExit
    \/ OpenOutput
    \/ WriteLine
    \/ CloseOutput
    \/ PrintStats

Spec == Init /\ [][Next]_vars

\* ------------------------------------------- the resolver on its own

\* The greatest number of records of a forward lookup's answer.
MaxRecords == 3

\* Every way the two lookups of resolve_ipv4_to_ipv6 can end.
AllAnswers ==
    { Answer(rev, fwd_err, fwd) :
        rev \in {"ok", "herror", "other"},
        fwd_err \in {"none", "gaierror", "other"},
        fwd \in SeqsUpTo({X, Y}, MaxRecords) }

\* Runs over one candidate, with every answer the resolver can meet.
InitResolve ==
    InitWith({ [kind |-> "ok", lines |-> <<l>>] : l \in {<<"b">>, <<" ", "a", NL>>} },
             { [c \in Candidates |-> ans] : ans \in AllAnswers },
             {1}, PriorOutputs)

SpecResolve == InitResolve /\ [][Next]_vars

\* --------------------------------------------- the loader on its own

\* The greatest number of characters of an input file's text.
MaxText == 5

TextChars == {" ", "#", "a", "b", NL}

\* "for line in f": the text cut after each "\n", which stays on its line.
RECURSIVE ReadLinesFrom(_, _)
ReadLinesFrom(text, cur) ==
    IF text = << >> THEN (IF cur = << >> THEN << >> ELSE <<cur>>)
    ELSE IF Head(text) = NL
         THEN <<Append(cur, NL)>> \o ReadLinesFrom(Tail(text), << >>)
         ELSE ReadLinesFrom(Tail(text), Append(cur, Head(text)))

ReadLines(text) == ReadLinesFrom(text, << >>)

\* Every input file of at most MaxText characters.
LoaderFiles ==
    { [kind |-> "ok", lines |-> ReadLines(t)] : t \in SeqsUpTo(TextChars, MaxText) }

InitLoader ==
    InitWith(LoaderFiles,
             { [c \in Candidates |-> Answer("herror", "none", << >>)] },
             {1},
             { [exists |-> FALSE, text |-> << >>] })

\* Lines 60-78 alone: the loader and the test for no candidates.
NextLoader == ReadInput \/ CheckEmpty

SpecLoader == InitLoader /\ [][NextLoader]_vars

\* ------------------------------------------------- runs that print progress

\* How many candidates more than ProgressEvery a run is given.
MaxExtra == 1

\* Input files of ProgressEvery to ProgressEvery + MaxExtra candidate lines:
\* all "b", but for the first line, which may be the other candidate's.
ProgressFiles ==
    { [kind |-> "ok",
       lines |-> [k \in 1..n |-> IF k = 1 THEN first ELSE <<"b">>]] :
         n \in ProgressEvery..(ProgressEvery + MaxExtra),
         first \in {<<"b">>, <<" ", "a", NL>>} }

\* The first candidate resolves, does not, or raises; the others resolve or
\* do not.
ProgressMaps ==
    { [c \in Candidates |-> IF c = <<"a">> THEN ansa ELSE ansb] :
        ansa \in {Answer("ok", "none", <<X>>), Answer("ok", "other", << >>)},
        ansb \in {Answer("ok", "none", <<Y>>), Answer("herror", "none", << >>)} }

\* One worker: the tasks commit one after the other.
InitProgress ==
    InitWith(ProgressFiles, ProgressMaps, {1},
             { [exists |-> FALSE, text |-> << >>] })

SpecProgress == InitProgress /\ [][Next]_vars

\* A resolver that never answers one candidate.  The candidate "a" occurs
\* once in the file, and its reverse lookup hangs, or its forward lookup
\* hangs, or it is answered; "b" resolves, does not, or raises.
HangFiles ==
    { [kind |-> "ok", lines |-> ls] :
        ls \in { s \in SeqsUpTo(Candidates, MaxLines) :
                    Cardinality({k \in 1..Len(s) : s[k] = <<"a">>}) = 1 } }

HangMaps ==
    { [c \in Candidates |-> IF c = <<"a">> THEN ansa ELSE ansb] :
        ansa \in {Answer("hang", "none", << >>), Answer("ok", "hang", << >>),
                  Answer("ok", "none", <<X>>)},
        ansb \in {Answer("ok", "none", <<Y>>), Answer("herror", "none", << >>),
                  Answer("other", "none", << >>)} }

InitHang ==
    InitWith(HangFiles, HangMaps, 1..MaxWorkers,
             { [exists |-> TRUE, text |-> <<"o", NL>>] })

\* The steps of the main thread, and of the worker thread that runs task i.
MainStep ==
    \/ ReadInput
    \/ CheckEmpty
    \/ Submit
    \/ \E i \in Tasks : AsCompleted(i)
    \/ ExecutorExit
    \/ OpenOutput
    \/ WriteLine
    \/ CloseOutput
    \/ PrintStats

TaskStep(i) ==
    /\ i \in Tasks
    /\ \/ TaskStart(i)
       \/ TaskReverse(i)
       \/ TaskForward(i)
       \/ TaskAcquire(i)
       \/ TaskLoadProc(i)
       \/ TaskStoreProc(i)
       \/ TaskLoadFound(i)
       \/ TaskStoreFound(i)
       \/ TaskAppend(i)
       \/ TaskProgress(i)
       \/ TaskRelease(i)

\* The operating system schedules every thread that can run: the main
\* thread and each worker thread keep taking their steps.
Fairness ==
    /\ WF_vars(MainStep)
    /\ \A i \in 1..MaxLines : WF_vars(TaskStep(i))

SpecHang == InitHang /\ [][Next]_vars /\ Fairness

\* Runs over one to MaxLines candidates whose DNS calls all return, under
\* the same scheduling.
FairFiles ==
    { [kind |-> "ok", lines |-> ls] :
        ls \in SeqsUpTo(Candidates, MaxLines) \ { << >> } }

InitFair ==
    InitOver(FairFiles, Answers, 1..MaxWorkers,
             { [exists |-> FALSE, text |-> << >>] })

SpecFair == InitFair /\ [][Next]_vars /\ Fairness

\* ------------------------------------------------------------ the claims

\* Every future is submitted and done: all tasks have completed.
RunComplete ==
    /\ Len(ipv4_addr) >= 1
    /\ pc \notin {"l74", "l107"}
    /\ AllTasksFinished

\* The candidate's resolve returns an address.
Resolved(c) == ~ResolveRaises(dns[c]) /\ Truthy(ResolveValue(dns[c]))

\* No candidate's resolve raises: every outcome is Resolved or Unresolved.
NoTaskRaises == \A k \in 1..Len(ipv4_addr) : ~ResolveRaises(dns[ipv4_addr[k]])

ResolvedCandidates == {k \in 1..Len(ipv4_addr) : Resolved(ipv4_addr[k])}

\* The candidates whose resolve returns the address v.
ResolvingTo(v) ==
    {k \in ResolvedCandidates : ResolveValue(dns[ipv4_addr[k]]) = v}

Occurrences(seq, v) == Cardinality({k \in 1..Len(seq) : seq[k] = v})

OutputUntouched ==
    /\ out_exists = out_prior.exists
    /\ out_text = out_prior.text

Printed(m) == \E k \in 1..Len(console) : console[k].msg = m

\* C1: no lost updates.  Once all tasks have completed, and every
\* candidate's outcome is Resolved or Unresolved, proc_cnt is the number of
\* candidates and found_cnt is the number of candidates whose resolve
\* returned an address, for every max_workers and every interleaving.
C1_NoLostUpdates ==
    (RunComplete /\ NoTaskRaises) =>
        /\ proc_cnt = Len(ipv4_addr)
        /\ found_cnt = Cardinality(ResolvedCandidates)

\* C1's case: three candidates on two workers, two of them resolved, all
\* tasks completed.
C1_Witness ==
    /\ RunComplete
    /\ NoTaskRaises
    /\ max_workers = 2
    /\ Len(ipv4_addr) = 3
    /\ Cardinality(ResolvedCandidates) = 2
    /\ lock = 0

\* C2: in every reachable state found_cnt <= proc_cnt <= the number of
\* candidates, and every progress line printed shows such a pair.
C2_FoundLeProcLeN ==
    /\ found_cnt <= proc_cnt
    /\ proc_cnt <= Len(ipv4_addr)
    /\ \A k \in 1..Len(console) :
          console[k].msg = "Processed" =>
              /\ console[k].found <= console[k].proc
              /\ console[k].proc <= Len(ipv4_addr)

\* C2's case: a task stands at the progress check of line 98, holding the
\* lock, having just made found_cnt equal to proc_cnt, while another task
\* is running.
C2_Witness ==
    \E i \in Tasks :
        /\ tpc[i] = "l98"
        /\ lock = i
        /\ Truthy(ipv6[i])
        /\ found_cnt = 2
        /\ proc_cnt = 2
        /\ \E j \in Running : j # i

\* The output file has been written and closed without a failure.
WriteSucceeded == pc = "l130" \/ (pc = "returned" /\ futures # << >>)

\* C3: after a run whose write succeeds the output file's content is
\* exactly the result collection, one address per line in collection order,
\* with nothing of the prior content left; it has found_cnt lines.
C3_OutputIsCollection ==
    WriteSucceeded =>
        /\ out_exists
        /\ out_text = Written(ipv6_results, Len(ipv6_results))
        /\ FileLines(out_text) = ipv6_results
        /\ Len(FileLines(out_text)) = found_cnt

\* C3's case: the write of two different addresses over an existing file
\* has succeeded.
C3_Witness ==
    /\ pc = "l130"
    /\ out_prior.exists
    /\ out_prior.text # << >>
    /\ Len(ipv6_results) = 2
    /\ ipv6_results[1] # ipv6_results[2]

\* C4: with the DNS answer fixed per candidate, the final found_cnt and the
\* final result collection taken without order are determined by the
\* candidate list and the DNS mapping alone: they are the same for
\* max_workers = 1 and any larger max_workers, under every interleaving.
C4_ResultsDetermined ==
    RunComplete =>
        /\ found_cnt = Cardinality(ResolvedCandidates)
        /\ Len(ipv6_results) = Cardinality(ResolvedCandidates)
        /\ \A c \in Candidates :
              LET v == ResolveValue(dns[c])
              IN  Resolved(c) =>
                    Occurrences(ipv6_results, v) = Cardinality(ResolvingTo(v))

\* C4's case: a run on two workers has completed with the collection in an
\* order other than the candidates' order.
C4_Witness ==
    /\ RunComplete
    /\ max_workers = 2
    /\ Len(ipv4_addr) = 3
    /\ Cardinality(ResolvedCandidates) = 3
    /\ \E k \in 1..3 : ipv6_results[k] # ResolveValue(dns[ipv4_addr[k]])

\* C5: exactly one task is dispatched per candidate (the k-th future is the
\* k-th candidate's, and once the submit loop is over there are as many
\* futures as candidates), and at every instant at most max_workers tasks
\* have started and not finished.
C5_OneTaskPerCandidateBounded ==
    /\ Cardinality(Running) <= max_workers
    /\ Len(futures) <= Len(ipv4_addr)
    /\ \A k \in 1..Len(futures) : futures[k] = ipv4_addr[k]
    /\ pc \notin {"l60", "l74", "l107"} => Len(futures) = Len(ipv4_addr)

\* C5's case: every worker is busy and a submitted task waits in the queue.
C5_Witness ==
    /\ pc = "l112"
    /\ max_workers = 2
    /\ Cardinality(Running) = 2
    /\ Queued # {}

\* The positions from opening the output file on, and the two ends of
\* process_ipv4_list.
AfterBarrier == {"l122", "l123", "l130", "returned", "raised"}

\* C6: fan-in barrier.  The output file is opened and the summary printed
\* only after every dispatched task has finished, and from then on no step
\* changes the counters or the result collection.
C6_FanInBarrier ==
    /\ [](pc \in AfterBarrier =>
            (AllTasksFinished /\ Len(futures) = Len(ipv4_addr)))
    /\ [][(pc \in AfterBarrier) =>
            (UNCHANGED <<proc_cnt, found_cnt, ipv6_results>>)]_vars

\* C6's case: the write loop is under way after a run of three tasks on two
\* workers.
C6_Witness ==
    /\ pc = "l123"
    /\ wi >= 1
    /\ max_workers = 2
    /\ Len(futures) = 3

\* Every line is blank or a comment, after trimming.
OnlyBlankOrComment(lines) ==
    \A k \in 1..Len(lines) :
        Strip(lines[k]) = << >> \/ Head(Strip(lines[k])) = "#"

\* C7: when the input file exists and yields no candidate (it is empty or
\* holds only blank and comment lines), the run aborts: it returns without
\* dispatching a task and the output file is neither created nor modified.
C7_EmptyInputAborts ==
    (input_file.kind = "ok" /\ OnlyBlankOrComment(input_file.lines)) =>
        /\ pc \in {"l60", "l74", "returned"}
        /\ exc = "none"
        /\ futures = << >>
        /\ OutputUntouched

\* C7's case: a run over a comment line and a blank line has returned.
C7_Witness ==
    /\ input_file.kind = "ok"
    /\ Len(input_file.lines) = 2
    /\ OnlyBlankOrComment(input_file.lines)
    /\ input_file.lines[1] # input_file.lines[2]
    /\ pc = "returned"
    /\ Printed("No IPv4 addresses found in input file")

\* C8: when the input file is missing the run reports the error and returns
\* normally: no exception leaves process_ipv4_list, no task is dispatched
\* and the output file is not written.
C8_MissingInputReported ==
    input_file.kind = "missing" =>
        /\ pc \in {"l60", "returned"}
        /\ exc = "none"
        /\ futures = << >>
        /\ OutputUntouched
        /\ pc = "returned" => Printed("Error: Input file not found")

\* C8's case: the run over a missing input file has returned.
C8_Witness ==
    /\ input_file.kind = "missing"
    /\ pc = "returned"
    /\ caught = "FileNotFoundError"

\* C9: when reading the input file fails with an I/O failure other than
\* file-not-found, the run reports the error and returns normally: no
\* exception leaves process_ipv4_list and the output file is not written.
C9_ReadErrorReported ==
    input_file.kind = "ioerror" =>
        /\ pc \in {"l60", "returned"}
        /\ exc = "none"
        /\ OutputUntouched

\* C10: when opening or writing the output file fails, the run reports the
\* write error and returns normally: no exception leaves process_ipv4_list
\* and the final statistics are not printed.
C10_WriteErrorReported ==
    caught = "OutputWriteError" =>
        /\ pc = "returned"
        /\ exc = "none"
        /\ ~Printed("Success rate")

\* C11: when a task fails with an exception that escapes resolve's own
\* handling, the failure is caught at the fan-in loop and logged, and the
\* batch is not aborted: no exception unwinds out of the loop and the run
\* goes on to the write of the output file.
C11_TaskFailureLogged ==
    caught = "TaskError" =>
        /\ exc = "none"
        /\ pc \notin {"unwind", "raised"}
        /\ Printed("Error processing address")

\* The candidates whose resolve returns (an address or None).
ReturningCandidates ==
    {k \in 1..Len(ipv4_addr) : ~ResolveRaises(dns[ipv4_addr[k]])}

\* C12: partial-failure isolation.  When a task has failed with an
\* unexpected exception, process_ipv4_list ends only once every other
\* dispatched task has run to completion and committed its own outcome:
\* proc_cnt counts every task whose resolve returned, found_cnt and the
\* collection every one that resolved.
C12_FailureIsolated ==
    (pc = "raised" /\ caught = "TaskError") =>
        /\ Len(futures) = Len(ipv4_addr)
        /\ \A i \in Tasks :
              tpc[i] = IF ResolveRaises(dns[futures[i]]) THEN "failed" ELSE "done"
        /\ proc_cnt = Cardinality(ReturningCandidates)
        /\ found_cnt = Cardinality(ResolvedCandidates)
        /\ \A c \in Candidates :
              Resolved(c) =>
                  Occurrences(ipv6_results, ResolveValue(dns[c]))
                      = Cardinality(ResolvingTo(ResolveValue(dns[c])))

\* C12's case: the first of three tasks has failed, the other two have
\* committed their addresses, and the failure has left the run.
C12_Witness ==
    /\ pc = "raised"
    /\ caught = "TaskError"
    /\ Len(futures) = 3
    /\ tpc[1] = "failed"
    /\ proc_cnt = 2
    /\ found_cnt = 2

\* C13: resolve_ipv4_to_ipv6 never raises to its caller: however the
\* reverse or the forward lookup fails, it returns None, so that no task's
\* future ever holds an exception.
C13_ResolveNeverRaises ==
    \A i \in Tasks : tpc[i] # "failed"

\* The call of resolve_ipv4_to_ipv6 by task i is over.
ResolveOver(i) == tpc[i] \notin {"queued", "resolve", "l29"}

\* C14: when the reverse lookup succeeds (and the forward lookup gives its
\* record list), resolve_ipv4_to_ipv6 returns the first record's address if
\* the list is non-empty and None if it is empty; when the reverse lookup
\* fails it returns None and no forward lookup is done.
C14_FirstAddressOrNone ==
    \A i \in Tasks :
        LET ans == dns[futures[i]]
        IN  /\ tpc[i] = "l29" => ans.rev = "ok"
            /\ (ResolveOver(i) /\ ans.rev = "ok" /\ ans.fwd_err = "none") =>
                  /\ tpc[i] # "failed"
                  /\ ipv6[i] = IF ans.fwd # << >> THEN ans.fwd[1] ELSE None
            /\ (ResolveOver(i) /\ ans.rev # "ok") =>
                  /\ tpc[i] # "failed"
                  /\ ipv6[i] = None

\* The line without its leading and trailing whitespace: what lies between
\* its first and its last character that is not whitespace.
TrimOf(s) ==
    LET inked == {k \in 1..Len(s) : ~IsSpace(s[k])}
    IN  IF inked = {} THEN << >>
        ELSE SubSeq(s, CHOOSE k \in inked : \A j \in inked : k <= j,
                       CHOOSE k \in inked : \A j \in inked : j <= k)

IsCandidate(t) == t # << >> /\ t[1] # "#"

\* C15: the loader's candidate list is exactly the input lines, trimmed of
\* leading and trailing whitespace, that are non-empty and do not start
\* with '#' after trimming, in their original order; no blank or comment
\* line is a candidate and no other line is dropped.
C15_LoaderFilters ==
    (input_file.kind = "ok" /\ pc # "l60") =>
        /\ ipv4_addr =
              SelectSeq([k \in 1..Len(input_file.lines) |-> TrimOf(input_file.lines[k])],
                        IsCandidate)
        /\ \A k \in 1..Len(ipv4_addr) : IsCandidate(ipv4_addr[k])

\* C15's case: a file of three lines, one of them skipped, has given two
\* different candidates, the first from a line with leading whitespace.
C15_Witness ==
    /\ pc = "l74"
    /\ Len(input_file.lines) = 3
    /\ Len(ipv4_addr) = 2
    /\ ipv4_addr[1] # ipv4_addr[2]
    /\ \E k \in 1..3 : Head(input_file.lines[k]) = " " /\ TrimOf(input_file.lines[k]) # << >>

IsProgressLine(m) == m.msg = "Processed"

ProgressLines == SelectSeq(console, IsProgressLine)

\* C16: a progress line is emitted exactly when a task's commit brings
\* proc_cnt to a multiple of 10: the k-th line shows 10 * k processed, there
\* are proc_cnt \div 10 of them whenever no task is inside the critical
\* section, and a completed run over N candidates has emitted N \div 10.
C16_ProgressEveryTenth ==
    /\ \A k \in 1..Len(ProgressLines) : ProgressLines[k].proc = ProgressEvery * k
    /\ lock = 0 => Len(ProgressLines) = proc_cnt \div ProgressEvery
    /\ RunComplete => Len(ProgressLines) = Len(ipv4_addr) \div ProgressEvery

\* C19: the success-rate division found_cnt / proc_cnt of the summary is
\* never evaluated with proc_cnt = 0: wherever the summary is reached
\* proc_cnt >= 1, and ZeroDivisionError never leaves process_ipv4_list.
C19_NoDivisionByZero ==
    /\ pc = "l130" => proc_cnt >= 1
    /\ exc # "ZeroDivisionError"

\* C19's case: the summary is reached after a run that found no address.
C19_Witness ==
    /\ pc = "l130"
    /\ proc_cnt >= 1
    /\ found_cnt = 0

\* The resolved addresses in the order of their candidates.
ResultsInInputOrder ==
    SelectSeq([k \in 1..Len(ipv4_addr) |->
                  IF Resolved(ipv4_addr[k]) THEN ResolveValue(dns[ipv4_addr[k]])
                  ELSE None],
              Truthy)

IsPrefix(s, t) == Len(s) <= Len(t) /\ SubSeq(t, 1, Len(s)) = s

\* C20: with max_workers = 1 the tasks run one at a time in candidate
\* order, so the result collection, and the output file once written, list
\* the resolved addresses in the order of their candidates.  (That another
\* order is reachable with max_workers >= 2 is the state C20_Witness.)
C20_OneWorkerKeepsOrder ==
    max_workers = 1 =>
        /\ Cardinality(Running) <= 1
        /\ \A i \in Running : \A j \in Tasks : j < i => tpc[j] \in FinishedPcs
        /\ IsPrefix(ipv6_results, ResultsInInputOrder)
        /\ RunComplete => ipv6_results = ResultsInInputOrder
        /\ WriteSucceeded => FileLines(out_text) = ResultsInInputOrder

\* C20's other case: with two workers a run has written an output file
\* whose lines are not in the order of their candidates.
C20_Witness ==
    /\ max_workers = 2
    /\ WriteSucceeded
    /\ Len(FileLines(out_text)) = Len(ResultsInInputOrder)
    /\ FileLines(out_text) # ResultsInInputOrder

\* The candidate's DNS call never returns.
Hangs(c) ==
    \/ dns[c].rev = "hang"
    \/ dns[c].rev = "ok" /\ dns[c].fwd_err = "hang"

HangingCandidates == {k \in 1..Len(ipv4_addr) : Hangs(ipv4_addr[k])}

\* The tasks now blocked in a DNS call that never returns.
Stuck ==
    {i \in Tasks : \/ tpc[i] = "resolve" /\ dns[futures[i]].rev = "hang"
                   \/ tpc[i] = "l29" /\ dns[futures[i]].fwd_err = "hang"}

\* The run is not past the fan-in barrier: the output file is as it was
\* found and no summary is printed.
BarrierNotPassed ==
    /\ pc \notin AfterBarrier
    /\ OutputUntouched
    /\ ~Printed("Success rate")

\* C17: when one candidate's DNS call never returns, the stuck task holds
\* no lock and the run never passes the fan-in barrier (the output file is
\* never written, the summary never printed); and with max_workers >= 2
\* every other candidate's task eventually completes with its outcome
\* committed.
C17_HungCallStallsOnlyBarrier ==
    /\ [](\A i \in Stuck : lock # i)
    /\ [](Cardinality(HangingCandidates) = 1 => BarrierNotPassed)
    /\ \A k \in 1..MaxLines :
          (/\ Cardinality(HangingCandidates) = 1
           /\ max_workers >= 2
           /\ k \in 1..Len(ipv4_addr)
           /\ ~Hangs(ipv4_addr[k]))
          ~> (k \in Tasks /\ tpc[k] = "done")

\* The write of the output file was completed, or failed as a write.
WriteAttempted == WriteSucceeded \/ caught = "OutputWriteError"

\* C18: under fair scheduling, when every DNS call returns, a run over
\* N >= 1 candidates eventually finishes for every max_workers >= 1: all N
\* tasks have completed, the lock is free and the output file is written.
C18_RunFinishes ==
    (pc = "l74" /\ Len(ipv4_addr) >= 1 /\ HangingCandidates = {})
        ~> (RunComplete /\ lock = 0 /\ WriteAttempted)

====
